---- MODULE Spec2Model ----
(***************************************************************************)
(* Whisper transcription processor (src/claude/main.js).                   *)
(*                                                                         *)
(* Representation of JavaScript values:                                    *)
(*   - an object is a record; a field that is absent (undefined) is        *)
(*     absent from the record's DOMAIN;                                    *)
(*   - null is the record Null;                                            *)
(*   - a string is a tuple of characters, so that trim, split and replace  *)
(*     are computed character by character; a printable ASCII character,   *)
(*     "\n", "\t", "\r" and "\f" are one-character strings, and any other  *)
(*     character is the string naming its code point, as "U+00E9";         *)
(*   - an array is a tuple (zero-based index k is position k + 1);         *)
(*   - the times of the input are whole seconds; the times generateASS     *)
(*     computes from them are doubles (see Numbers); the rate             *)
(*     wordsPerSecond is kept as the fraction [num, den] it rounds;        *)
(*   - a word probability is given in percent (0.8 is 80).                 *)
(***************************************************************************)
EXTENDS Integers, Sequences, FiniteSets, TLC

VARIABLES
    pc,               \* position of the run
    data,             \* argument of processTranscriptionData
    segments,         \* normalized segments (main.js:13)
    paragraphs,       \* main.js:85
    currentParagraph, \* main.js:86
    i,                \* loop index of the paragraph loop / batch loop
    assEvents,        \* main.js:173
    eventCount,       \* main.js:175
    segPos,           \* generateASS / extractWordTimings: segment being visited (1-based)
    wordTimings,      \* main.js:248
    wordCount,        \* main.js:249
    items,            \* argument of processItemsBatched
    batchSize,        \* argument of processItemsBatched
    processedItems    \* main.js:275

vars == <<pc, data, segments, paragraphs, currentParagraph, i, assEvents, eventCount,
          segPos, wordTimings, wordCount, items, batchSize, processedItems>>

-----------------------------------------------------------------------------
(* JavaScript values *)

Null == [null |-> TRUE]

Has(o, f) == f \in DOMAIN o

\* o.f || 0 for a numeric field
NumOr0(o, f) == IF Has(o, f) THEN o[f] ELSE 0

\* o.f as an optional field g of a result object
Opt(o, f, g) == IF Has(o, f) THEN g :> o[f] ELSE <<>>

Min(S) == CHOOSE x \in S : \A y \in S : x <= y
Max(S) == CHOOSE x \in S : \A y \in S : x >= y

-----------------------------------------------------------------------------
(* Strings *)

\* the characters /\s/ and trim take for whitespace: the white space and the
\* line terminators of ECMAScript
IsSpace(c) ==
    c \in {" ", "\n", "\t", "\r", "\f", "U+000B", "U+00A0", "U+1680",
           "U+2000", "U+2001", "U+2002", "U+2003", "U+2004", "U+2005", "U+2006",
           "U+2007", "U+2008", "U+2009", "U+200A", "U+2028", "U+2029", "U+202F",
           "U+205F", "U+3000", "U+FEFF"}

\* String.prototype.trim
trim(s) ==
    LET keep == {k \in 1..Len(s) : ~IsSpace(s[k])}
    IN  IF keep = {} THEN <<>> ELSE SubSeq(s, Min(keep), Max(keep))

\* String.prototype.split(/\s+/): the pieces between maximal runs of whitespace
RECURSIVE splitFrom(_, _, _, _)
splitFrom(s, k, cur, acc) ==
    IF k > Len(s) THEN Append(acc, cur)
    ELSE IF IsSpace(s[k])
         THEN IF k > 1 /\ IsSpace(s[k - 1])
              THEN splitFrom(s, k + 1, cur, acc)
              ELSE splitFrom(s, k + 1, <<>>, Append(acc, cur))
         ELSE splitFrom(s, k + 1, Append(cur, s[k]), acc)

splitWhitespace(s) == splitFrom(s, 1, <<>>, <<>>)

\* String.prototype.replace(/\n/g, '\\N')
RECURSIVE replaceNewlines(_)
replaceNewlines(s) ==
    IF s = <<>> THEN <<>>
    ELSE (IF Head(s) = "\n" THEN <<"\\", "N">> ELSE <<Head(s)>>) \o replaceNewlines(Tail(s))

\* Array.prototype.join(' ') of an array of strings
RECURSIVE joinSpace(_)
joinSpace(parts) ==
    IF parts = <<>> THEN <<>>
    ELSE IF Len(parts) = 1 THEN parts[1]
    ELSE parts[1] \o <<" ">> \o joinSpace(Tail(parts))

-----------------------------------------------------------------------------
(* processTranscriptionData: the segment map, main.js:13-50 *)

\* segment.words || []
wordsOf(segment) == IF Has(segment, "words") THEN segment.words ELSE <<>>

\* segment.id || index
segmentId(segment, index) ==
    IF Has(segment, "id") /\ segment.id # 0 THEN segment.id ELSE index

\* ((segment.end || 0) - (segment.start || 0) || 1)
rateDenominator(segment) ==
    LET d == NumOr0(segment, "end") - NumOr0(segment, "start")
    IN  IF d # 0 THEN d ELSE 1

\* segment.words ? segment.words.length / (... || 1) : 0
wordsPerSecond(segment) ==
    IF Has(segment, "words")
    THEN [num |-> Len(segment.words), den |-> rateDenominator(segment)]
    ELSE [num |-> 0, den |-> 1]

\* (word.probability || 0)
probabilityOf(word) == NumOr0(word, "probability")

\* word.word inside join(' '): undefined joins as the empty string
wordText(word) == IF Has(word, "word") THEN word.word ELSE <<>>

IsHighConfidence(word) == probabilityOf(word) > 80
IsLowConfidence(word) == probabilityOf(word) < 50

highConfidenceWords(segment) ==
    LET hits == SelectSeq(wordsOf(segment), IsHighConfidence)
    IN  joinSpace([k \in 1..Len(hits) |-> wordText(hits[k])])

lowConfidenceWords(segment) ==
    LET hits == SelectSeq(wordsOf(segment), IsLowConfidence)
    IN  [k \in 1..Len(hits) |->
            Opt(hits[k], "word", "word") @@ Opt(hits[k], "probability", "probability")
            @@ Opt(hits[k], "start", "start") @@ Opt(hits[k], "end", "end")]

\* the object the map callback returns; index is zero-based
normalizeSegment(segment, index) ==
    [id |-> segmentId(segment, index),
     startTime |-> NumOr0(segment, "start"),
     endTime |-> NumOr0(segment, "end"),
     duration |-> NumOr0(segment, "end") - NumOr0(segment, "start"),
     text |-> IF Has(segment, "text") THEN segment.text ELSE <<>>,
     words |-> wordsOf(segment),
     avgLogProb |-> NumOr0(segment, "avg_logprob"),
     noSpeechProb |-> NumOr0(segment, "no_speech_prob"),
     temperature |-> NumOr0(segment, "temperature"),
     compressionRatio |-> NumOr0(segment, "compression_ratio"),
     wordCount |-> Len(wordsOf(segment)),
     wordsPerSecond |-> wordsPerSecond(segment),
     highConfidenceWords |-> highConfidenceWords(segment),
     lowConfidenceWords |-> lowConfidenceWords(segment)]

\* (data.segments || []).map(...)
rawSegments(d) == IF Has(d, "segments") THEN d.segments ELSE <<>>

mapSegments(d) ==
    [k \in 1..Len(rawSegments(d)) |-> normalizeSegment(rawSegments(d)[k], k - 1)]

-----------------------------------------------------------------------------
(* processTranscriptionData: the paragraph loop, main.js:84-101 *)

\* variant: the pause threshold is reached at 2 s already
endsParagraphAtTwo(segs, k) ==
    \/ k + 1 > Len(segs)
    \/ segs[k + 1].startTime - segs[k].endTime >= 2

\* !nextSegment || (nextSegment.startTime - currentSegment.endTime) > 2
endsParagraph(segs, k) ==
    \/ k + 1 > Len(segs)
    \/ segs[k + 1].startTime - segs[k].endTime > 2

\* variant: the accumulator is not reset after a paragraph is pushed
paragraphStepNoReset(segs, st) ==
    LET k == st.i + 1
        pushed == Append(st.currentParagraph, trim(segs[k].text))
    IN  IF endsParagraph(segs, k) /\ Len(pushed) > 0
        THEN [paragraphs |-> Append(st.paragraphs, trim(joinSpace(pushed))),
              currentParagraph |-> pushed,
              i |-> st.i + 1]
        ELSE [paragraphs |-> st.paragraphs,
              currentParagraph |-> pushed,
              i |-> st.i + 1]

\* one iteration of the loop at (zero-based) index st.i
paragraphStep(segs, st) ==
    LET k == st.i + 1
        pushed == Append(st.currentParagraph, trim(segs[k].text))
    IN  IF endsParagraph(segs, k) /\ Len(pushed) > 0
        THEN [paragraphs |-> Append(st.paragraphs, trim(joinSpace(pushed))),
              currentParagraph |-> <<>>,
              i |-> st.i + 1]
        ELSE [paragraphs |-> st.paragraphs,
              currentParagraph |-> pushed,
              i |-> st.i + 1]

RECURSIVE paragraphRun(_, _)
paragraphRun(segs, st) ==
    IF st.i < Len(segs) THEN paragraphRun(segs, paragraphStep(segs, st)) ELSE st

paragraphsOf(segs) ==
    paragraphRun(segs, [paragraphs |-> <<>>, currentParagraph |-> <<>>, i |-> 0]).paragraphs

-----------------------------------------------------------------------------
(* Numbers.  The times generateASS computes are IEEE 754 doubles.  A number  *)
(* is the record [int |-> n] when its value is the integer n, and otherwise *)
(* [neg |-> s, m |-> b, e |-> k], the value (-1)^s * b * 2^k with k < 0 and  *)
(* b an odd natural number of at most 53 bits.  Naturals wider than a       *)
(* machine integer are sequences of limbs in base 32768, lowest limb first,  *)
(* without leading zero limbs.  Integers stay below 2^31 in magnitude.      *)

RECURSIVE bigOfNat(_)
bigOfNat(n) == IF n = 0 THEN <<>> ELSE <<n % 32768>> \o bigOfNat(n \div 32768)

RECURSIVE bigToNat(_)
bigToNat(b) == IF b = <<>> THEN 0 ELSE b[1] + 32768 * bigToNat(Tail(b))

RECURSIVE bigTrim(_)
bigTrim(b) ==
    IF b # <<>> /\ b[Len(b)] = 0 THEN bigTrim(SubSeq(b, 1, Len(b) - 1)) ELSE b

RECURSIVE bigMulCarry(_, _, _)
bigMulCarry(b, c, carry) ==
    IF b = <<>> THEN bigOfNat(carry)
    ELSE LET t == b[1] * c + carry
         IN  <<t % 32768>> \o bigMulCarry(Tail(b), c, t \div 32768)

\* b * c for 0 <= c < 2^16
bigMulSmall(b, c) == bigTrim(bigMulCarry(b, c, 0))

RECURSIVE bigDivFrom(_, _, _, _)
bigDivFrom(b, c, k, r) ==
    IF k = 0 THEN [q |-> <<>>, r |-> r]
    ELSE LET t == r * 32768 + b[k]
             low == bigDivFrom(b, c, k - 1, t % c)
         IN  [q |-> Append(low.q, t \div c), r |-> low.r]

\* quotient and remainder of b by c, 0 < c < 2^16
bigDivSmall(b, c) ==
    LET d == bigDivFrom(b, c, Len(b), 0)
    IN  [q |-> bigTrim(d.q), r |-> d.r]

RECURSIVE bigAddCarry(_, _, _)
bigAddCarry(a, b, carry) ==
    IF a = <<>> /\ b = <<>> THEN bigOfNat(carry)
    ELSE LET t == (IF a = <<>> THEN 0 ELSE a[1]) + (IF b = <<>> THEN 0 ELSE b[1]) + carry
         IN  <<t % 32768>> \o bigAddCarry(IF a = <<>> THEN <<>> ELSE Tail(a),
                                         IF b = <<>> THEN <<>> ELSE Tail(b), t \div 32768)

bigAdd(a, b) == bigAddCarry(a, b, 0)

RECURSIVE bigSubBorrow(_, _, _)
bigSubBorrow(a, b, borrow) ==
    IF a = <<>> THEN <<>>
    ELSE LET t == a[1] - (IF b = <<>> THEN 0 ELSE b[1]) - borrow
         IN  <<t % 32768>> \o bigSubBorrow(Tail(a), IF b = <<>> THEN <<>> ELSE Tail(b),
                                          IF t < 0 THEN 1 ELSE 0)

\* a - b for a >= b
bigSub(a, b) == bigTrim(bigSubBorrow(a, b, 0))

RECURSIVE bigCmpFrom(_, _, _)
bigCmpFrom(a, b, k) ==
    IF k = 0 THEN 0
    ELSE IF a[k] > b[k] THEN 1
    ELSE IF a[k] < b[k] THEN -1
    ELSE bigCmpFrom(a, b, k - 1)

\* 1, 0 or -1 as a is above, equal to or below b
bigCmp(a, b) ==
    IF Len(a) > Len(b) THEN 1
    ELSE IF Len(a) < Len(b) THEN -1
    ELSE bigCmpFrom(a, b, Len(a))

RECURSIVE bitsOf(_)
bitsOf(n) == IF n = 0 THEN 0 ELSE 1 + bitsOf(n \div 2)

\* number of bits of b
bigBitLen(b) == IF b = <<>> THEN 0 ELSE 15 * (Len(b) - 1) + bitsOf(b[Len(b)])

\* b * 2^s
bigShl(b, s) ==
    IF b = <<>> THEN <<>>
    ELSE [k \in 1..(s \div 15) |-> 0] \o bigMulSmall(b, 2 ^ (s % 15))

\* b \div 2^s
bigShr(b, s) ==
    IF s \div 15 >= Len(b) THEN <<>>
    ELSE bigDivSmall(SubSeq(b, s \div 15 + 1, Len(b)), 2 ^ (s % 15)).q

\* b % 2^s
bigLow(b, s) ==
    IF s \div 15 >= Len(b) THEN b
    ELSE bigTrim(SubSeq(b, 1, s \div 15) \o <<b[s \div 15 + 1] % (2 ^ (s % 15))>>)

RECURSIVE zerosOf(_)
zerosOf(n) == IF n % 2 = 1 THEN 0 ELSE 1 + zerosOf(n \div 2)

RECURSIVE bigTrailingZeros(_)
\* number of trailing zero bits of b > 0
bigTrailingZeros(b) == IF b[1] = 0 THEN 15 + bigTrailingZeros(Tail(b)) ELSE zerosOf(b[1])

bigIsOdd(b) == b # <<>> /\ b[1] % 2 = 1

\* the number (-1)^neg * odd * 2^e for an odd natural
oddNumberOf(neg, odd, e) ==
    IF e >= 0
    THEN [int |-> (IF neg THEN -1 ELSE 1) * bigToNat(bigShl(odd, e))]
    ELSE [neg |-> neg, m |-> odd, e |-> e]

\* the number (-1)^neg * m * 2^e
numberOf(neg, m, e) ==
    IF m = <<>> THEN [int |-> 0]
    ELSE oddNumberOf(neg, bigShr(m, bigTrailingZeros(m)), e + bigTrailingZeros(m))

\* round to nearest, ties to even: the mantissa goes up when the first bit
\* dropped (guard) is set and a later one (sticky) or the last one kept is
roundMantissa(neg, mantissa, guard, sticky, e) ==
    numberOf(neg,
             IF guard /\ (sticky \/ bigIsOdd(mantissa)) THEN bigAdd(mantissa, <<1>>)
             ELSE mantissa,
             e)

\* the double nearest to (-1)^neg * (q + r / c) * 2^e, keeping the 53 highest
\* bits of q and dropping its s lowest ones; r > 0 tells a non-zero remainder
roundAt(neg, q, r, s, e) ==
    roundMantissa(neg, bigShr(q, s), bigIsOdd(bigShr(q, s - 1)),
                  r > 0 \/ bigLow(q, s - 1) # <<>>, e + s)

roundQuotient(neg, d, e) == roundAt(neg, d.q, d.r, bigBitLen(d.q) - 53, e)

\* the number of zero limbs to put below n > 0 so that its quotient by a
\* c < 2^16 has more than 53 bits
headroom(n) == IF Len(n) >= 6 THEN 0 ELSE 6 - Len(n)

\* the double nearest to (-1)^neg * n / (c * 2^k) for 0 < c < 2^16
roundToDouble(neg, n, c, k) ==
    IF n = <<>> THEN [int |-> 0]
    ELSE roundQuotient(neg, bigDivSmall([j \in 1..headroom(n) |-> 0] \o n, c),
                       -15 * headroom(n) - k)

isInteger(x) == Has(x, "int")

negative(x) == IF isInteger(x) THEN x.int < 0 ELSE x.neg

magnitude(x) == IF isInteger(x) THEN bigOfNat(IF x.int < 0 THEN -x.int ELSE x.int) ELSE x.m

exponent(x) == IF isInteger(x) THEN 0 ELSE x.e

\* x / c for an integer c > 0
numDiv(x, c) ==
    IF isInteger(x) /\ x.int % c = 0 THEN [int |-> x.int \div c]
    ELSE roundToDouble(negative(x), magnitude(x), c, -exponent(x))

\* x * c for an integer c >= 0
numMul(x, c) ==
    IF isInteger(x) THEN [int |-> x.int * c]
    ELSE roundToDouble(x.neg, bigMulSmall(x.m, c), 1, -x.e)

\* sign and magnitude of (-1)^aneg * a + (-1)^bneg * b
signedSum(aneg, a, bneg, b) ==
    IF aneg = bneg THEN [neg |-> aneg, m |-> bigAdd(a, b)]
    ELSE IF bigCmp(a, b) > 0 THEN [neg |-> aneg, m |-> bigSub(a, b)]
    ELSE [neg |-> bneg, m |-> bigSub(b, a)]

roundSum(sum, k) == roundToDouble(sum.neg, sum.m, 1, k)

\* c + x for an integer c
numAdd(c, x) ==
    IF isInteger(x) THEN [int |-> c + x.int]
    ELSE roundSum(signedSum(c < 0, bigShl(bigOfNat(IF c < 0 THEN -c ELSE c), -x.e),
                            x.neg, x.m),
                  -x.e)

\* x % c for an integer c > 0: the remainder has the sign of x and is exact
numRem(x, c) ==
    IF isInteger(x)
    THEN [int |-> IF x.int < 0 THEN -((-x.int) % c) ELSE x.int % c]
    ELSE numberOf(x.neg,
                  bigAdd(bigShl(bigOfNat(bigDivSmall(bigShr(x.m, -x.e), c).r), -x.e),
                         bigLow(x.m, -x.e)),
                  x.e)

\* Math.floor(x), as an integer
floor(x) ==
    IF isInteger(x) THEN x.int
    ELSE IF x.neg THEN -bigToNat(bigShr(x.m, -x.e)) - 1
    ELSE bigToNat(bigShr(x.m, -x.e))

-----------------------------------------------------------------------------
(* formatASSTime, main.js:225-232 *)

\* n.toString().padStart(2, '0')
padStart2(n) == IF Len(ToString(n)) < 2 THEN "0" \o ToString(n) ELSE ToString(n)

\* main.js:231
timeText(hours, minutes, secs, centiseconds) ==
    ToString(hours) \o ":" \o padStart2(minutes) \o ":" \o padStart2(secs)
        \o "." \o padStart2(centiseconds)

\* formatASSTime of the number x, every step in double arithmetic
formatDouble(x) ==
    timeText(floor(numDiv(x, 3600)),
             floor(numDiv(numRem(x, 3600), 60)),
             floor(numRem(x, 60)),
             floor(numMul(numRem(x, 1), 100)))

\* formatASSTime of n >= 0 whole seconds.  The quotient of two integers below
\* 2^31 that is not itself an integer lies further from every integer than
\* rounding to 53 bits can move it, so Math.floor of the double quotient is
\* the integer quotient; the remainders are exact and n % 1 is 0.
formatWhole(n) == timeText(n \div 3600, (n % 3600) \div 60, n % 60, 0)

\* formatASSTime of the number x
formatASSTimeOf(x) ==
    IF isInteger(x) /\ x.int >= 0 THEN formatWhole(x.int) ELSE formatDouble(x)

\* formatASSTime of a whole number of seconds
formatASSTime(seconds) == formatASSTimeOf([int |-> seconds])

-----------------------------------------------------------------------------
(* generateASS, main.js:149-222.  The result is the list of lines that      *)
(* follow the fixed header; a line `Dialogue: 0,S,E,Karaoke,,0,0,0,,T` is   *)
(* the record [start |-> S, end |-> E, text |-> T].                         *)

MAX_EVENTS == 5000

Dialogue(startTime, endTime, text) == [start |-> startTime, end |-> endTime, text |-> text]

NoDataText ==
    <<"N", "o", " ", "d", "a", "t", "a", " ", "a", "v", "a", "i", "l", "a", "b", "l", "e">>

ProcessingErrorText ==
    <<"P", "r", "o", "c", "e", "s", "s", "i", "n", "g", " ", "e", "r", "r", "o", "r", " ",
      "-", " ", "n", "o", " ", "d", "i", "a", "l", "o", "g", "u", "e", " ",
      "g", "e", "n", "e", "r", "a", "t", "e", "d">>

\* main.js:170
NoDataLine == Dialogue("0:00:00.00", "0:00:01.00", NoDataText)

\* main.js:218
ProcessingErrorLine == Dialogue("0:00:00.00", "0:00:01.00", ProcessingErrorText)

\* a || b || 0 on numbers
firstTruthy(a, b) == IF a # 0 THEN a ELSE b

\* segment.startTime || segment.start || 0
segmentStart(segment) == firstTruthy(NumOr0(segment, "startTime"), NumOr0(segment, "start"))

\* segment.endTime || segment.end || 0
segmentEnd(segment) == firstTruthy(NumOr0(segment, "endTime"), NumOr0(segment, "end"))

\* word.start || segment.startTime || segment.start || 0
wordStartTime(word, segment) == firstTruthy(NumOr0(word, "start"), segmentStart(segment))

\* word.end || segment.endTime || segment.end || 0
wordEndTime(word, segment) == firstTruthy(NumOr0(word, "end"), segmentEnd(segment))

\* (word.word || '').trim().replace(/\n/g, '\\N')
cleanWordOf(word) == replaceNewlines(trim(wordText(word)))

\* the event pushed at main.js:190
wordEvent(word, segment) ==
    Dialogue(formatASSTime(wordStartTime(word, segment)),
             formatASSTime(wordEndTime(word, segment)),
             cleanWordOf(word))

\* segment.words && segment.words.length > 0
hasWordTiming(segment) == Len(wordsOf(segment)) > 0

\* segment.text (truthy)
hasText(segment) == Has(segment, "text") /\ segment.text # <<>>

\* segment.text.trim().split(/\s+/)
textTokens(segment) == splitWhitespace(trim(segment.text))

\* segmentDuration > 0 ? segmentDuration / words.length : 1
timePerWord(segment) ==
    LET segmentDuration == segmentEnd(segment) - segmentStart(segment)
    IN  IF segmentDuration > 0
        THEN numDiv([int |-> segmentDuration], Len(textTokens(segment)))
        ELSE [int |-> 1]

\* the event pushed at main.js:209 for the token word at zero-based index,
\* from the start of the segment and the time per word: main.js:201-206
tokenEventOf(start, perWord, word, index) ==
    Dialogue(formatASSTimeOf(numAdd(start, numMul(perWord, index))),
             formatASSTimeOf(numAdd(start, numMul(perWord, index + 1))),
             replaceNewlines(word))

tokenEvent(segment, index) ==
    tokenEventOf(segmentStart(segment), timePerWord(segment),
                 textTokens(segment)[index + 1], index)

\* main.js:168-175
assStart(segs) ==
    IF Len(segs) = 0
    THEN [assEvents |-> <<NoDataLine>>, eventCount |-> 0, segPos |-> 1, done |-> TRUE]
    ELSE [assEvents |-> <<>>, eventCount |-> 0, segPos |-> 1, done |-> FALSE]

\* variant: no placeholder when nothing was emitted
assFinishBare(st) == [st EXCEPT !.done = TRUE]

\* main.js:216-221
assFinish(st) ==
    [st EXCEPT !.assEvents = IF Len(st.assEvents) = 0 THEN <<ProcessingErrorLine>> ELSE @,
               !.done = TRUE]

\* main.js:189-192 and main.js:208-211
assPush(st, event) ==
    IF event.text # <<>>
    THEN [st EXCEPT !.assEvents = Append(@, event), !.eventCount = @ + 1]
    ELSE st

\* variant: the inner loops stop one event late
capReachedLate(st) == st.eventCount > MAX_EVENTS

\* the guard of the inner loops: main.js:183 and main.js:200
capReached(st) == st.eventCount >= MAX_EVENTS

\* one iteration of the loop of main.js:182-193; after the break of
\* main.js:183 the loop does nothing more
assWord(st, segment, word) ==
    IF capReached(st) THEN st ELSE assPush(st, wordEvent(word, segment))

\* one iteration of the loop of main.js:200-212, index zero-based
assToken(st, segment, index) ==
    IF capReached(st) THEN st ELSE assPush(st, tokenEvent(segment, index))

\* the iterations lo..hi of the loop of main.js:182-193, in order, up to the
\* break (the range is halved so that the evaluation depth stays logarithmic)
RECURSIVE assWords(_, _, _, _)
assWords(st, segment, lo, hi) ==
    IF lo > hi THEN st
    ELSE IF lo = hi THEN assWord(st, segment, segment.words[lo])
    ELSE LET mid == (lo + hi) \div 2
             left == assWords(st, segment, lo, mid)
         IN  IF capReached(left) THEN left ELSE assWords(left, segment, mid + 1, hi)

\* the iterations lo..hi (one-based) of the loop of main.js:200-212, in order,
\* up to the exit of the loop
RECURSIVE assTokens(_, _, _, _)
assTokens(st, segment, lo, hi) ==
    IF lo > hi THEN st
    ELSE IF lo = hi THEN assToken(st, segment, lo - 1)
    ELSE LET mid == (lo + hi) \div 2
             left == assTokens(st, segment, lo, mid)
         IN  IF capReached(left) THEN left ELSE assTokens(left, segment, mid + 1, hi)

\* the body of the loop of main.js:177-214 below the break of main.js:178
assSegment(st, segment) ==
    IF hasWordTiming(segment) THEN assWords(st, segment, 1, Len(segment.words))
    ELSE IF hasText(segment) THEN assTokens(st, segment, 1, Len(textTokens(segment)))
    ELSE st

\* one iteration of the loop of main.js:177-214, or its exit and main.js:216-221
assStep(segs, st) ==
    IF st.segPos > Len(segs) \/ st.eventCount >= MAX_EVENTS
    THEN assFinish(st)
    ELSE [assSegment(st, segs[st.segPos]) EXCEPT !.segPos = @ + 1]

RECURSIVE assRun(_, _)
assRun(segs, st) == IF st.done THEN st ELSE assRun(segs, assStep(segs, st))

generateASS(segs) == assRun(segs, assStart(segs)).assEvents

-----------------------------------------------------------------------------
(* extractWordTimings, main.js:246-271 *)

MAX_WORDS == 10000

\* the object pushed at main.js:256-263
wordTiming(word, segment) ==
    (IF Has(word, "word") THEN "word" :> trim(word.word) ELSE <<>>)
    @@ Opt(word, "start", "start") @@ Opt(word, "end", "end")
    @@ [duration |-> NumOr0(word, "end") - NumOr0(word, "start")]
    @@ Opt(word, "probability", "probability")
    @@ Opt(segment, "id", "segmentId")

wtStart == [wordTimings |-> <<>>, wordCount |-> 0, segPos |-> 1, done |-> FALSE]

\* variant: the inner loop stops one word late
wtCapReachedLate(st) == st.wordCount > MAX_WORDS

\* main.js:254
wtCapReached(st) == st.wordCount >= MAX_WORDS

\* one iteration of the loop of main.js:253-265; after the break of
\* main.js:254 the loop does nothing more
wtWord(st, segment, word) ==
    IF wtCapReached(st) THEN st
    ELSE [st EXCEPT !.wordTimings = Append(@, wordTiming(word, segment)),
                    !.wordCount = @ + 1]

\* the iterations lo..hi of the loop of main.js:253-265, in order, up to the
\* break (the range is halved so that the evaluation depth stays logarithmic)
RECURSIVE wtWords(_, _, _, _)
wtWords(st, segment, lo, hi) ==
    IF lo > hi THEN st
    ELSE IF lo = hi THEN wtWord(st, segment, segment.words[lo])
    ELSE LET mid == (lo + hi) \div 2
             left == wtWords(st, segment, lo, mid)
         IN  IF wtCapReached(left) THEN left ELSE wtWords(left, segment, mid + 1, hi)

\* main.js:252-266
wtSegment(st, segment) ==
    IF Has(segment, "words") THEN wtWords(st, segment, 1, Len(segment.words)) ELSE st

\* one iteration of the loop of main.js:251-268, or its exit
wtStep(segs, st) ==
    IF st.segPos > Len(segs) THEN [st EXCEPT !.done = TRUE]
    ELSE LET after == wtSegment(st, segs[st.segPos])
         IN  IF after.wordCount >= MAX_WORDS
             THEN [after EXCEPT !.done = TRUE]
             ELSE [after EXCEPT !.segPos = @ + 1]

RECURSIVE wtRun(_, _)
wtRun(segs, st) == IF st.done THEN st ELSE wtRun(segs, wtStep(segs, st))

extractWordTimings(segs) == wtRun(segs, wtStart).wordTimings

-----------------------------------------------------------------------------
(* Inputs *)

MaxSegs == 3        \* longest segment list of the id and paragraph families
MaxTimedSegs == 1   \* longest segment list of the timing family
MaxId == 2          \* largest segment id supplied

EmptyObject == <<>>

\* the objects with field f absent or holding one of the values
OptField(f, values) == {EmptyObject} \cup {f :> v : v \in values}

Lists(S, n) == UNION {[1..k -> S] : k \in 0..n}

WordA == [word |-> <<"a">>, start |-> 0, end |-> 1, probability |-> 90]
WordB == [word |-> <<" ", "b">>, start |-> 1, end |-> 2, probability |-> 40]

\* segments that differ in the id they carry
IdSegments == {a @@ [start |-> 0, end |-> 1, text |-> <<"a">>] : a \in OptField("id", 0..MaxId)}

\* segments that differ in start, end and words
TimedSegments ==
    {s @@ e @@ w : s \in OptField("start", {0, 1, 3}), e \in OptField("end", {0, 1, 3}),
                   w \in OptField("words", {<<>>, <<WordA>>, <<WordA, WordB>>})}

\* segments that differ in start, end and text
ParagraphSegments ==
    {s @@ e @@ t : s \in {[start |-> 0], [start |-> 3]},
                   e \in {[end |-> 0], [end |-> 1]},
                   t \in OptField("text", {<<"a">>, <<" ", "b", "\n">>})}

NormalizerInputs ==
    {EmptyObject}
    \cup {[segments |-> l] : l \in Lists(IdSegments, MaxSegs)}
    \cup {[segments |-> l] : l \in Lists(TimedSegments, MaxTimedSegs)}
    \cup {[segments |-> l] : l \in Lists(ParagraphSegments, MaxSegs)}

-----------------------------------------------------------------------------
(* processTranscriptionData: segment map and paragraph loop *)

IdleASS ==
    /\ assEvents = <<>>
    /\ eventCount = 0
    /\ segPos = 1

IdleWords ==
    /\ wordTimings = <<>>
    /\ wordCount = 0

IdleBatch ==
    /\ items = <<>>
    /\ batchSize = 10
    /\ processedItems = <<>>

IdleNormalizer ==
    /\ data = EmptyObject
    /\ paragraphs = <<>>
    /\ currentParagraph = <<>>

Init ==
    /\ pc = "map"
    /\ data \in NormalizerInputs
    /\ segments = <<>>
    /\ paragraphs = <<>>
    /\ currentParagraph = <<>>
    /\ i = 0
    /\ IdleASS /\ IdleWords /\ IdleBatch

\* main.js:13-50
MapSegments ==
    /\ pc = "map"
    /\ segments' = mapSegments(data)
    /\ pc' = "paragraphs"
    /\ UNCHANGED <<data, paragraphs, currentParagraph, i, assEvents, eventCount, segPos,
                   wordTimings, wordCount, items, batchSize, processedItems>>

\* main.js:88-101, one iteration
ParagraphLoop ==
    /\ pc = "paragraphs"
    /\ i < Len(segments)
    /\ LET st == paragraphStep(segments, [paragraphs |-> paragraphs,
                                          currentParagraph |-> currentParagraph, i |-> i])
       IN  /\ paragraphs' = st.paragraphs
           /\ currentParagraph' = st.currentParagraph
           /\ i' = st.i
    /\ UNCHANGED <<pc, data, segments, assEvents, eventCount, segPos, wordTimings,
                   wordCount, items, batchSize, processedItems>>

\* main.js:88, the loop condition fails
ParagraphsDone ==
    /\ pc = "paragraphs"
    /\ ~(i < Len(segments))
    /\ pc' = "done"
    /\ UNCHANGED <<data, segments, paragraphs, currentParagraph, i, assEvents, eventCount,
                   segPos, wordTimings, wordCount, items, batchSize, processedItems>>

Next == MapSegments \/ ParagraphLoop \/ ParagraphsDone

Spec == Init /\ [][Next]_vars

-----------------------------------------------------------------------------
(* Properties of the segment map *)

RawSegmentAt(k) == rawSegments(data)[k]

RawDuration(k) == NumOr0(RawSegmentAt(k), "end") - NumOr0(RawSegmentAt(k), "start")

\* the denominator the rate is specified to use
SpecifiedDenominator(k) == IF RawDuration(k) <= 0 THEN 1 ELSE RawDuration(k)

\* C4: for every segment, duration = end - start and wordsPerSecond =
\* wordCount / duration, except that a duration <= 0 is replaced by 1
\* (fractions are compared by cross-multiplication).
C4_RateUsesPositiveDenominator ==
    pc # "map" =>
        \A k \in 1..Len(segments) :
            /\ segments[k].duration = RawDuration(k)
            /\ segments[k].wordsPerSecond.num * SpecifiedDenominator(k)
                   = segments[k].wordCount * segments[k].wordsPerSecond.den

\* C10: normalized segments keep input order; a segment's id is the input id
\* whenever one is supplied (0 included), and the zero-based position otherwise.
C10_IdIsInputIdWhenSupplied ==
    pc # "map" =>
        /\ Len(segments) = Len(rawSegments(data))
        /\ \A k \in 1..Len(segments) :
               /\ segments[k].id = IF Has(RawSegmentAt(k), "id") THEN RawSegmentAt(k).id
                                   ELSE k - 1
               /\ segments[k].startTime = NumOr0(RawSegmentAt(k), "start")
               /\ segments[k].endTime = NumOr0(RawSegmentAt(k), "end")

-----------------------------------------------------------------------------
(* Properties of the paragraph loop *)

Gap(k) == segments[k + 1].startTime - segments[k].endTime

NoLongGap == \A k \in 1..(Len(segments) - 1) : Gap(k) <= 2

\* positions after which a paragraph is specified to end
Breaks == {k \in 1..Len(segments) : k = Len(segments) \/ Gap(k) > 2}

\* the j-th break in increasing order
BreakAt(j) == CHOOSE b \in Breaks : Cardinality({c \in Breaks : c < b}) = j - 1

BlockStart(j) == IF j = 1 THEN 1 ELSE BreakAt(j - 1) + 1

\* the paragraph specified for the j-th block
BlockText(j) ==
    trim(joinSpace([k \in 1..(BreakAt(j) - BlockStart(j) + 1) |->
                        trim(segments[BlockStart(j) + k - 1].text)]))

\* C5 as stated: every segment list without a gap above 2 s, the empty list
\* included, yields exactly one paragraph.
C5_OneParagraphForEveryList ==
    (pc = "done" /\ NoLongGap) => Len(paragraphs) = 1

\* C5 amended: a non-empty segment list without a gap above 2 s yields
\* exactly one paragraph, and the empty segment list yields none.
C5_OneParagraphWhenNonEmpty ==
    /\ (pc = "done" /\ NoLongGap /\ Len(segments) > 0) => Len(paragraphs) = 1
    /\ (pc = "done" /\ Len(segments) = 0) => Len(paragraphs) = 0

C5_Witness ==
    /\ pc = "done"
    /\ Len(segments) >= 2
    /\ NoLongGap
    /\ \E k \in 1..(Len(segments) - 1) : Gap(k) = 2
    /\ Len(paragraphs) = 1

\* C9: the paragraphs are the blocks of the segment sequence cut after every
\* gap above 2.0 and after the last segment, in order: their number is 0 for
\* no segments and 1 + the number of such gaps otherwise, and the j-th one is
\* the trimmed, space-joined trimmed texts of the j-th block.
C9_ParagraphsPartitionSegments ==
    pc = "done" =>
        /\ Len(paragraphs) = Cardinality(Breaks)
        /\ Len(segments) = 0 => Len(paragraphs) = 0
        /\ Len(segments) > 0 =>
               Len(paragraphs) = 1 + Cardinality({k \in 1..(Len(segments) - 1) : Gap(k) > 2})
        /\ \A j \in 1..Len(paragraphs) : paragraphs[j] = BlockText(j)
        /\ currentParagraph = <<>>

C9_Witness ==
    /\ pc = "done"
    /\ Len(segments) = 3
    /\ Gap(1) = 2
    /\ Gap(2) > 2
    /\ Len(paragraphs) = 2
    /\ paragraphs[1] # <<>>

-----------------------------------------------------------------------------
(* generateASS on the normalized segments, main.js:121 *)

MaxAssSegs == 2     \* longest segment list given to generateASS
BigExtra == 2       \* words beyond a cap in the long inputs
MaxUnevenSegs == 2  \* longest list of text segments with a fractional time per word

\* words that differ in their text
TextWords ==
    {w @@ [start |-> 2, end |-> 5] :
        w \in OptField("word", {<<" ">>, <<"\n">>, <<" ", "a", "\n", "b", " ">>})}

\* words that differ in their timing
TimingWords ==
    {s @@ e @@ [word |-> <<"a">>] :
        s \in OptField("start", {0, 2}), e \in OptField("end", {0, 5})}

AssWordLists == {<<w>> : w \in TextWords \cup TimingWords} \cup {<<WordA, WordB>>}

AssTexts ==
    {<<" ">>, <<"a", " ", "b">>, <<" ", "a", "\n", " ", "b", " ", " ", "a", " ">>,
     <<"\r", "a", "\f", "b", "U+00A0", "a", "\n", "b", "U+2028", "\t", "U+00E9", "U+000B">>}

WordSegments ==
    {t @@ [words |-> w] : t \in {EmptyObject, [start |-> 1, end |-> 3]}, w \in AssWordLists}

TextSegments ==
    {t @@ x : t \in {EmptyObject, [end |-> 3], [start |-> 1, end |-> 3]},
              x \in OptField("text", AssTexts)}

\* the time per word of the text segment is not a whole number of seconds
Uneven(segment) ==
    /\ Has(segment, "text")
    /\ NumOr0(segment, "end") - NumOr0(segment, "start") > 0
    /\ (NumOr0(segment, "end") - NumOr0(segment, "start"))
           % Len(splitWhitespace(trim(segment.text))) # 0

AssSegments == WordSegments \cup {s \in TextSegments : ~Uneven(s)}

UnevenSegments == {s \in TextSegments : Uneven(s)}

\* lists of uneven text segments, alone and next to a segment with words
UnevenInputs ==
    Lists(UnevenSegments, MaxUnevenSegs)
    \cup {<<[start |-> 1, end |-> 3, words |-> <<WordA, WordB>>], u>> : u \in UnevenSegments}
    \cup {<<u, [start |-> 1, end |-> 3, words |-> <<WordA, WordB>>]>> : u \in UnevenSegments}

BlankWord == [word |-> <<" ">>, start |-> 1, end |-> 2, probability |-> 60]
PlainWord == [word |-> <<"a">>, start |-> 1, end |-> 2, probability |-> 60]

\* blank words (which emit nothing) followed by n words that emit an event
LongWords(blank, n) == [k \in 1..(blank + n) |-> IF k <= blank THEN BlankWord ELSE PlainWord]

LongAssInputs ==
    {<<[start |-> 1, end |-> 3, words |-> LongWords(3, MAX_EVENTS + BigExtra)]>>,
     <<[start |-> 1, end |-> 3, words |-> LongWords(1, MAX_EVENTS - 1)],
       [start |-> 3, end |-> 6, text |-> <<"a", " ", "b", " ", "a">>]>>,
     <<[start |-> 1, end |-> 3, words |-> LongWords(0, MAX_EVENTS)],
       [start |-> 3, end |-> 6, words |-> LongWords(1, BigExtra)]>>}

InitASS ==
    /\ pc = "ass"
    /\ segments \in {mapSegments([segments |-> l]) :
                        l \in Lists(AssSegments, MaxAssSegs) \cup UnevenInputs
                              \cup LongAssInputs}
    /\ i = 0
    /\ IdleNormalizer /\ IdleASS /\ IdleWords /\ IdleBatch

\* main.js:168-175
GenerateASSStart ==
    /\ pc = "ass"
    /\ LET st == assStart(segments)
       IN  /\ assEvents' = st.assEvents
           /\ eventCount' = st.eventCount
           /\ segPos' = st.segPos
           /\ pc' = IF st.done THEN "assDone" ELSE "assLoop"
    /\ UNCHANGED <<data, segments, paragraphs, currentParagraph, i, wordTimings, wordCount,
                   items, batchSize, processedItems>>

\* main.js:177-221, one iteration of the outer loop or its exit
ASSLoop ==
    /\ pc = "assLoop"
    /\ LET st == assStep(segments, [assEvents |-> assEvents, eventCount |-> eventCount,
                                    segPos |-> segPos, done |-> FALSE])
       IN  /\ assEvents' = st.assEvents
           /\ eventCount' = st.eventCount
           /\ segPos' = st.segPos
           /\ pc' = IF st.done THEN "assDone" ELSE "assLoop"
    /\ UNCHANGED <<data, segments, paragraphs, currentParagraph, i, wordTimings, wordCount,
                   items, batchSize, processedItems>>

NextASS == GenerateASSStart \/ ASSLoop

SpecASS == InitASS /\ [][NextASS]_vars

-----------------------------------------------------------------------------
(* Properties of generateASS *)

HasInk(s) == \E k \in 1..Len(s) : ~IsSpace(s[k])

\* number of maximal runs of non-whitespace characters of s
InkRuns(s) == Cardinality({k \in 1..Len(s) : ~IsSpace(s[k]) /\ (k = 1 \/ IsSpace(s[k - 1]))})

\* non-empty word tokens of one segment: its words when it has any, else the
\* whitespace-separated tokens of its text
SegmentTokens(segment) ==
    IF Len(segment.words) > 0
    THEN Cardinality({k \in 1..Len(segment.words) :
                          Has(segment.words[k], "word") /\ HasInk(segment.words[k].word)})
    ELSE InkRuns(segment.text)

RECURSIVE TokensUpTo(_)
TokensUpTo(n) == IF n = 0 THEN 0 ELSE TokensUpTo(n - 1) + SegmentTokens(segments[n])

TotalTokens == TokensUpTo(Len(segments))

IsPlaceholder(line) == line.text \in {NoDataText, ProcessingErrorText}

WordEvents == Cardinality({k \in 1..Len(assEvents) : ~IsPlaceholder(assEvents[k])})

\* C1: generateASS never emits more than 5000 Dialogue events; the number of
\* word events is the number of non-empty tokens when that is at most 5000
\* and exactly 5000 when it is larger.
C1_EventCap ==
    /\ Len(assEvents) <= MAX_EVENTS
    /\ pc = "assDone" =>
           /\ TotalTokens > MAX_EVENTS => WordEvents = MAX_EVENTS
           /\ TotalTokens <= MAX_EVENTS => WordEvents = TotalTokens
           /\ eventCount = WordEvents

C1_Witness ==
    /\ pc = "assDone"
    /\ TotalTokens > MAX_EVENTS
    /\ Len(segments) = 2
    /\ ~hasWordTiming(segments[2])
    /\ Len(assEvents) = MAX_EVENTS

\* C7: the output always has at least one Dialogue line: the "No data
\* available" line from 0 to 1 s alone for zero segments, the "Processing
\* error" line alone for segments without any non-empty token, and no
\* placeholder line once a word event is emitted.
C7_Placeholders ==
    pc = "assDone" =>
        /\ Len(assEvents) >= 1
        /\ Len(segments) = 0 =>
               assEvents = <<[start |-> "0:00:00.00", end |-> "0:00:01.00", text |-> NoDataText]>>
        /\ (Len(segments) > 0 /\ TotalTokens = 0) =>
               assEvents = <<[start |-> "0:00:00.00", end |-> "0:00:01.00",
                              text |-> ProcessingErrorText]>>
        /\ TotalTokens > 0 => \A k \in 1..Len(assEvents) : ~IsPlaceholder(assEvents[k])

C7_Witness ==
    /\ pc = "assDone"
    /\ Len(segments) = 2
    /\ Len(segments[1].words) > 0
    /\ segments[2].text # <<>>
    /\ TotalTokens = 0
    /\ assEvents = <<ProcessingErrorLine>>

OwnOrSegment(word, f, fallback) == IF Has(word, f) THEN word[f] ELSE fallback

EmitsEvent(word) == Has(word, "word") /\ HasInk(word.word)

\* position in assEvents of the event of word k of segment n
EventIndex(n, k) ==
    TokensUpTo(n - 1)
    + Cardinality({j \in 1..k : EmitsEvent(segments[n].words[j])})

\* C8: an event emitted for a word of a segment with word-level timing carries
\* the word's own start and end whenever the word has them (0 included), and
\* the segment's start or end only for a field the word lacks.
C8_WordTimingPreferred ==
    (pc = "assDone" /\ TotalTokens <= MAX_EVENTS) =>
        \A n \in 1..Len(segments) :
            \A k \in 1..Len(segments[n].words) :
                EmitsEvent(segments[n].words[k]) =>
                    LET word == segments[n].words[k]
                        event == assEvents[EventIndex(n, k)]
                    IN  /\ event.start
                               = formatASSTime(OwnOrSegment(word, "start", segments[n].startTime))
                        /\ event.end
                               = formatASSTime(OwnOrSegment(word, "end", segments[n].endTime))

-----------------------------------------------------------------------------
(* extractWordTimings on the normalized segments, main.js:123 *)

LongWordInputs ==
    {<<[id |-> 4, start |-> 1, end |-> 3, words |-> LongWords(1, MAX_WORDS - 2)],
       [id |-> 5, start |-> 3, end |-> 6, words |-> LongWords(0, 1 + BigExtra)],
       [id |-> 6, start |-> 6, end |-> 7, words |-> <<PlainWord>>]>>}

InitWords ==
    /\ pc = "words"
    /\ segments \in {mapSegments([segments |-> l]) :
                        l \in Lists(AssSegments, MaxAssSegs) \cup LongWordInputs}
    /\ i = 0
    /\ IdleNormalizer /\ IdleASS /\ IdleWords /\ IdleBatch

\* main.js:251-270, one iteration of the outer loop or its exit
WordTimingsLoop ==
    /\ pc = "words"
    /\ LET st == wtStep(segments, [wordTimings |-> wordTimings, wordCount |-> wordCount,
                                   segPos |-> segPos, done |-> FALSE])
       IN  /\ wordTimings' = st.wordTimings
           /\ wordCount' = st.wordCount
           /\ segPos' = st.segPos
           /\ pc' = IF st.done THEN "wordsDone" ELSE "words"
    /\ UNCHANGED <<data, segments, paragraphs, currentParagraph, i, assEvents, eventCount,
                   items, batchSize, processedItems>>

NextWords == WordTimingsLoop

SpecWords == InitWords /\ [][NextWords]_vars

-----------------------------------------------------------------------------
(* Properties of extractWordTimings *)

RECURSIVE WordsBefore(_)
\* number of words in the segments before segment n
WordsBefore(n) == IF n <= 1 THEN 0 ELSE WordsBefore(n - 1) + Len(segments[n - 1].words)

TotalWords == WordsBefore(Len(segments) + 1)

\* the segment that owns the j-th word of the flattened sequence
OwnerOf(j) ==
    CHOOSE n \in 1..Len(segments) :
        WordsBefore(n) < j /\ j <= WordsBefore(n) + Len(segments[n].words)

FlatWord(j) == segments[OwnerOf(j)].words[j - WordsBefore(OwnerOf(j))]

SameOptional(entry, word, f) ==
    /\ Has(entry, f) <=> Has(word, f)
    /\ Has(word, f) => entry[f] = word[f]

\* C6: extractWordTimings returns the first min(N, 10000) words of the
\* flattened word sequence, in order, each tagged with its segment's id, and
\* never more than 10000 entries.
C6_WordTimingsArePrefix ==
    /\ Len(wordTimings) <= MAX_WORDS
    /\ pc = "wordsDone" =>
           /\ Len(wordTimings) = IF TotalWords < MAX_WORDS THEN TotalWords ELSE MAX_WORDS
           /\ wordCount = Len(wordTimings)
           /\ \A j \in 1..Len(wordTimings) :
                  /\ wordTimings[j].segmentId = segments[OwnerOf(j)].id
                  /\ SameOptional(wordTimings[j], FlatWord(j), "start")
                  /\ SameOptional(wordTimings[j], FlatWord(j), "end")
                  /\ SameOptional(wordTimings[j], FlatWord(j), "probability")
                  /\ Has(wordTimings[j], "word") <=> Has(FlatWord(j), "word")

C6_Witness ==
    /\ pc = "wordsDone"
    /\ TotalWords > MAX_WORDS
    /\ Len(wordTimings) = MAX_WORDS
    /\ wordTimings[MAX_WORDS].segmentId = segments[2].id

-----------------------------------------------------------------------------
(* processTranscriptionData as a whole, main.js:8-126.  An exception is the *)
(* result [threw |-> TRUE, message |-> m].  Of the returned object the      *)
(* model keeps originalText, language, paragraphs, segments, the counting   *)
(* statistics and the ass and wordTimings exports.                          *)

Throw(message) == [threw |-> TRUE, message |-> message]

Return(value) == [threw |-> FALSE, value |-> value]

ReadOfNull(field) == "Cannot read properties of null (reading '" \o field \o "')"

hasNullWord(segment) ==
    \E k \in 1..Len(wordsOf(segment)) : wordsOf(segment)[k] = Null

\* Math.max(...segments.map(s => s.endTime)), 0 for no segments
totalDuration(segs) == IF Len(segs) > 0 THEN Max({segs[k].endTime : k \in 1..Len(segs)}) ELSE 0

RECURSIVE totalWords(_)
\* segments.reduce((sum, seg) => sum + seg.wordCount, 0)
totalWords(segs) == IF segs = <<>> THEN 0 ELSE segs[1].wordCount + totalWords(Tail(segs))

Unknown == <<"u", "n", "k", "n", "o", "w", "n">>

processTranscriptionData(d) ==
    IF d = Null THEN Throw(ReadOfNull("text"))
    ELSE LET raw == rawSegments(d)
             bad == {k \in 1..Len(raw) : raw[k] = Null \/ hasNullWord(raw[k])}
         IN  IF bad # {}
             THEN Throw(ReadOfNull(IF raw[Min(bad)] = Null THEN "id" ELSE "probability"))
             ELSE LET segs == mapSegments(d)
                  IN  Return(
                        [originalText |-> IF Has(d, "text") THEN d.text ELSE <<>>,
                         paragraphs |-> paragraphsOf(segs),
                         segments |-> segs,
                         statistics |->
                             [totalDuration |-> totalDuration(segs),
                              totalSegments |-> Len(segs),
                              totalWords |-> totalWords(segs),
                              languageDetected |->
                                  IF Has(d, "language") /\ d.language # <<>>
                                  THEN d.language ELSE Unknown],
                         exportFormats |->
                             [ass |-> generateASS(segs),
                              wordTimings |-> extractWordTimings(segs)]]
                        @@ Opt(d, "language", "language"))

-----------------------------------------------------------------------------
(* processItemsBatched, main.js:274-353.  An array met where the code tests *)
(* Array.isArray is the record [isArray |-> TRUE, elems |-> <<...>>]; a     *)
(* binary payload, a string, is [wellFormed |-> FALSE] when JSON.parse       *)
(* rejects it and [wellFormed |-> TRUE, value |-> v] when JSON.parse        *)
(* returns v; the empty string, which JSON.parse rejects, is                *)
(* [wellFormed |-> FALSE, empty |-> TRUE].                                  *)

\* o.f is truthy, for a field that holds an object or null
truthy(o, f) == Has(o, f) /\ o[f] # Null

IsArray(v) == Has(v, "isArray")

\* the payload is the empty string, which is falsy
isEmptyString(payload) == Has(payload, "empty") /\ payload.empty

\* item.binary && item.binary.data
hasBinaryData(item) ==
    /\ truthy(item, "binary")
    /\ truthy(item.binary, "data")
    /\ ~isEmptyString(item.binary.data)

\* main.js:284-301
selectTranscriptionData(item) ==
    IF hasBinaryData(item)
    THEN IF item.binary.data.wellFormed
         THEN item.binary.data.value
         ELSE IF truthy(item, "json") THEN item.json ELSE item
    ELSE IF truthy(item, "json")
         THEN IF truthy(item.json, "data") THEN item.json.data ELSE item.json
         ELSE item

\* main.js:304-307
unwrapArray(transcriptionData) ==
    IF IsArray(transcriptionData) /\ Len(transcriptionData.elems) > 0
    THEN LET first == transcriptionData.elems[1]
         IN  IF first = Null THEN Throw(ReadOfNull("data"))
             ELSE Return(IF truthy(first, "data") THEN first.data ELSE first)
    ELSE Return(transcriptionData)

\* main.js:312-323
successResult(processed, batchIndex) ==
    [json |-> [success |-> TRUE,
               processed |-> processed,
               metadata |-> [inputType |-> "whisper-transcription",
                             batchIndex |-> batchIndex]]]

\* main.js:325-337
failureResult(message, batchIndex) ==
    [json |-> [success |-> FALSE,
               error |-> message,
               originalData |-> Null,
               metadata |-> [inputType |-> "error", batchIndex |-> batchIndex]]]

\* main.js:304-337, from the chosen transcription data on
finishItem(transcriptionData, batchIndex) ==
    LET unwrapped == unwrapArray(transcriptionData)
    IN  IF unwrapped.threw THEN failureResult(unwrapped.message, batchIndex)
        ELSE LET processed == processTranscriptionData(unwrapped.value)
             IN  IF processed.threw THEN failureResult(processed.message, batchIndex)
                 ELSE successResult(processed.value, batchIndex)

\* the callback of batch.map, main.js:281-339
processItem(item, batchIndex) ==
    IF item = Null THEN failureResult(ReadOfNull("binary"), batchIndex)
    ELSE finishItem(selectTranscriptionData(item), batchIndex)

\* items.slice(from, from + size), from zero-based
slice(all, from, size) ==
    SubSeq(all, from + 1, IF from + size < Len(all) THEN from + size ELSE Len(all))

\* variant: one try/catch around the whole batch, so a throwing record
\* loses the results of its batch
batchStepAbortOnError(all, size, st) ==
    LET batch == slice(all, st.i, size)
        batchResults == [k \in 1..Len(batch) |-> processItem(batch[k], st.i \div size)]
        failed == {k \in 1..Len(batch) : ~batchResults[k].json.success}
    IN  [processedItems |->
             st.processedItems
             \o (IF failed = {} THEN batchResults ELSE <<batchResults[Min(failed)]>>),
         i |-> st.i + size]

\* one iteration of the loop of main.js:278-350
batchStep(all, size, st) ==
    LET batch == slice(all, st.i, size)
        batchResults == [k \in 1..Len(batch) |-> processItem(batch[k], st.i \div size)]
    IN  [processedItems |-> st.processedItems \o batchResults, i |-> st.i + size]

-----------------------------------------------------------------------------
(* Batches *)

MaxItems == 2       \* longest freely chosen batch input

Tags == {"a", "b"}

Transcription(t) ==
    [text |-> <<t>>,
     language |-> <<"e", "n">>,
     segments |-> <<[id |-> 1, start |-> 0, end |-> 1, text |-> <<t>>, words |-> <<WordA>>],
                    [start |-> 4, end |-> 6, text |-> <<t, " ", t>>]>>]

NullSegmentData(t) == [text |-> <<t>>, segments |-> <<Null>>]

NullWordData(t) ==
    [text |-> <<t>>, segments |-> <<[start |-> 0, end |-> 1, words |-> <<WordA, Null>>]>>]

Malformed == [data |-> [wellFormed |-> FALSE]]

WellFormed(v) == [data |-> [wellFormed |-> TRUE, value |-> v]]

EmptyPayload == [data |-> [wellFormed |-> FALSE, empty |-> TRUE]]

ArrayOf(elems) == [isArray |-> TRUE, elems |-> elems]

ItemsFor(t) ==
    {Transcription(t),
     [json |-> Transcription(t)],
     [json |-> [data |-> Transcription(t)]],
     [json |-> ArrayOf(<<[data |-> Transcription(t)]>>)],
     [json |-> EmptyObject, binary |-> WellFormed(Transcription(t))],
     [json |-> Transcription(t), binary |-> [mimeType |-> "application/json"]],
     [json |-> Transcription(t), binary |-> Malformed],
     [json |-> [data |-> Transcription(t)], binary |-> Malformed],
     [json |-> [data |-> Transcription(t)], binary |-> EmptyPayload],
     [json |-> NullSegmentData(t)],
     [json |-> [data |-> NullWordData(t)]]}

BatchItems ==
    UNION {ItemsFor(t) : t \in Tags}
    \cup {Null,
          [binary |-> Malformed],
          [json |-> ArrayOf(<<Null>>)],
          [json |-> ArrayOf(<<>>)],
          [json |-> Transcription("a"), binary |-> WellFormed(Null)]}

\* a batch longer than the default batch size of 10
LongBatch ==
    [k \in 1..(10 + MaxItems) |->
        IF k % 4 = 0 THEN Null
        ELSE IF k % 4 = 1 THEN [json |-> Transcription("a")]
        ELSE IF k % 4 = 2 THEN [json |-> [data |-> NullWordData("b")]]
        ELSE [json |-> [data |-> Transcription("b")]]]

InitBatch ==
    /\ pc = "batch"
    /\ \/ items \in Lists(BatchItems, MaxItems) /\ batchSize \in {1, 2, 10}
       \/ items = LongBatch /\ batchSize \in {3, 10}
    /\ processedItems = <<>>
    /\ i = 0
    /\ segments = <<>>
    /\ IdleNormalizer /\ IdleASS /\ IdleWords

\* main.js:278-350, one batch
BatchLoop ==
    /\ pc = "batch"
    /\ i < Len(items)
    /\ LET st == batchStep(items, batchSize, [processedItems |-> processedItems, i |-> i])
       IN  /\ processedItems' = st.processedItems
           /\ i' = st.i
    /\ UNCHANGED <<pc, data, segments, paragraphs, currentParagraph, assEvents, eventCount,
                   segPos, wordTimings, wordCount, items, batchSize>>

\* main.js:352
BatchReturn ==
    /\ pc = "batch"
    /\ ~(i < Len(items))
    /\ pc' = "batchDone"
    /\ UNCHANGED <<data, segments, paragraphs, currentParagraph, i, assEvents, eventCount,
                   segPos, wordTimings, wordCount, items, batchSize, processedItems>>

NextBatch == BatchLoop \/ BatchReturn

SpecBatch == InitBatch /\ [][NextBatch]_vars

-----------------------------------------------------------------------------
(* Properties of processItemsBatched *)

\* the binary payload of the item is one JSON.parse rejects
BinaryParseFails(item) ==
    /\ item # Null
    /\ Has(item, "binary")
    /\ Has(item.binary, "data")
    /\ ~item.binary.data.wellFormed
    /\ ~(Has(item.binary.data, "empty") /\ item.binary.data.empty)

\* the data of the non-binary path: item.json.data if present, else
\* item.json, else the item itself
NonBinaryChoice(item) ==
    IF Has(item, "json")
    THEN IF Has(item.json, "data") THEN item.json.data ELSE item.json
    ELSE item

BatchIndexOf(k) == (k - 1) \div batchSize

\* C3: a record whose binary payload fails to parse is handled as the same
\* record is on the non-binary path: its result is the one obtained from
\* item.json.data if present, else item.json, else the item itself.
C3_BinaryFallbackIsNonBinaryPath ==
    \A k \in 1..Len(processedItems) :
        BinaryParseFails(items[k])
            => processedItems[k] = finishItem(NonBinaryChoice(items[k]), BatchIndexOf(k))

\* the objects inside an item that may hold the transcription
Layers(item) ==
    LET payload == IF Has(item, "binary") /\ Has(item.binary, "data")
                      /\ item.binary.data.wellFormed /\ item.binary.data.value # Null
                   THEN {item.binary.data.value} ELSE {}
        json == IF Has(item, "json") THEN {item.json} ELSE {}
        inner == IF Has(item, "json") /\ Has(item.json, "data") THEN {item.json.data} ELSE {}
        first == IF Has(item, "json") /\ IsArray(item.json) /\ Len(item.json.elems) > 0
                    /\ item.json.elems[1] # Null /\ Has(item.json.elems[1], "data")
                 THEN {item.json.elems[1].data} ELSE {}
    IN  {item} \cup payload \cup json \cup inner \cup first

PayloadIsNull(item) ==
    /\ Has(item, "binary")
    /\ Has(item.binary, "data")
    /\ item.binary.data.wellFormed
    /\ item.binary.data.value = Null

FirstElementIsNull(item) ==
    /\ Has(item, "json")
    /\ IsArray(item.json)
    /\ Len(item.json.elems) > 0
    /\ item.json.elems[1] = Null

HoldsNullSegment(item) ==
    \E l \in Layers(item) : \E k \in 1..Len(rawSegments(l)) : rawSegments(l)[k] = Null

HoldsNullWord(item) ==
    \E l \in Layers(item) :
        \E k \in 1..Len(rawSegments(l)) :
            rawSegments(l)[k] # Null /\ hasNullWord(rawSegments(l)[k])

\* the messages of the exceptions the record is bound to raise
Faults(item) ==
    IF item = Null THEN {"Cannot read properties of null (reading 'binary')"}
    ELSE (IF PayloadIsNull(item)
          THEN {"Cannot read properties of null (reading 'text')"} ELSE {})
         \cup (IF FirstElementIsNull(item)
               THEN {"Cannot read properties of null (reading 'data')"} ELSE {})
         \cup (IF HoldsNullSegment(item)
               THEN {"Cannot read properties of null (reading 'id')"} ELSE {})
         \cup (IF HoldsNullWord(item)
               THEN {"Cannot read properties of null (reading 'probability')"} ELSE {})

\* the texts of the transcriptions inside the item
TextsIn(item) ==
    LET found == {l.text : l \in {x \in Layers(item) : Has(x, "text")}}
    IN  IF found = {} THEN {<<>>} ELSE found

\* C2: the output holds exactly one result per input record, in input order;
\* a record that throws yields success false with the exception's message, and
\* every other record of the batch still yields its own result.
C2_OneResultPerRecord ==
    pc = "batchDone" =>
        /\ Len(processedItems) = Len(items)
        /\ \A k \in 1..Len(items) :
               LET r == processedItems[k].json
               IN  /\ r.success <=> Faults(items[k]) = {}
                   /\ r.metadata.batchIndex = BatchIndexOf(k)
                   /\ ~r.success => r.error \in Faults(items[k])
                   /\ (r.success /\ ~BinaryParseFails(items[k]))
                          => r.processed.originalText \in TextsIn(items[k])

C2_Witness ==
    /\ pc = "batchDone"
    /\ batchSize = 10
    /\ Len(items) > 10
    /\ processedItems[1].json.success
    /\ ~processedItems[2].json.success
    /\ processedItems[3].json.success
    /\ processedItems[11].json.metadata.batchIndex = 1
    /\ processedItems[1].json.processed.originalText # processedItems[3].json.processed.originalText

====
